---- MODULE Spec2Model ----
(***************************************************************************)
(* Model of the wallet key-management, transaction-signing and             *)
(* WalletConnect session engine of web3wallet.                             *)
(*                                                                         *)
(*   KeyManager / TransactionService  src/src/services/wallet/KeyManager.ts *)
(*   WalletService                    src/unnamed/part_014                 *)
(*   RequestHandler       src/src/services/walletconnect/RequestHandler.ts *)
(*   WalletConnectService src/src/services/walletconnect/WalletConnectService.ts *)
(*   useWalletConnectStore            src/README.md (lines 89-278)         *)
(*   ProviderService      src/src/services/blockchain/ProviderService.ts   *)
(*                                                                         *)
(* Optional values are sequences of length 0 or 1: <<>> is null/undefined, *)
(* <<x>> is the value x.                                                   *)
(***************************************************************************)
EXTENDS Integers, Sequences, FiniteSets, TLC

VARIABLES
  vault,          \* durable storage: Keychain entries + EncryptedStorage items
  clock,          \* Date.now(), advanced by every vault operation
  lastOp,         \* the last KeyManager / WalletService call and what it returned
  encPins,        \* ghost: the PIN each stored blob and the credential were made from
  ops,            \* KeyManager calls running step by step, one step per await
  pendingCount,   \* network: provider.getTransactionCount(sender, 'pending')
  txLog,          \* transactions handed to wallet.sendTransaction, in order
  receipts,       \* network: the receipts produced so far, [tx, status]
  waits,          \* waitForConfirmation calls: waiting, or returned with a value
  currentChainId, \* providerService.currentChainId
  networkChainId, \* useNetworkStore currentChainId
  store,          \* useWalletConnectStore state
  relay,          \* the relay client (web3wallet): sessions, ids, calls received
  tasks,          \* store actions in flight (async calls suspended at an await)
  hist            \* ghost: what the user asked for and what the handlers did

vars == <<vault, clock, lastOp, encPins, ops, pendingCount, txLog, receipts, waits,
          currentChainId, networkChainId, store, relay, tasks, hist>>

vaultVars == <<vault, clock, lastOp, encPins, ops>>
txVars == <<pendingCount, txLog, receipts, waits>>
wcVars == <<currentChainId, store, relay, tasks, hist>>

None == <<>>
Some(x) == <<x>>

-----------------------------------------------------------------------------
(* Bounds *)

MaxVaultOps == 3      \* KeyManager / WalletService calls in one behaviour
MaxTxs == 3           \* transactions submitted in one behaviour
MaxIds == 2           \* session_proposal / session_request events received
MaxCalls == 3         \* store actions the user starts
MaxTasks == 2         \* store actions in flight at the same time
MaxWalletOps == 2     \* wallet calls in one behaviour of SpecWallet
MaxPinOps == 2        \* PIN calls in one behaviour of SpecPin
MaxRegistryOps == 3   \* storePrivateKey / deleteWallet / clearAll calls of SpecRegistry
MaxWaits == 2         \* waitForConfirmation calls, and transfers, of SpecWait

-----------------------------------------------------------------------------
(* Values *)

\* PIN strings as sequences of UTF-16 code units: "12", "21"
Pins == { <<49, 50>>, <<50, 49>> }

\* the PIN pads take six digits
PinLength == 6

\* the code units of '0' and '9', the two ends of the digits
DigitCodes == {48, 57}

\* every PIN of 1 to PinLength of these digits
DigitPins == UNION { [1..n -> DigitCodes] : n \in 1..PinLength }

PrivateKeys == {"k1", "k2"}
Mnemonics == {"m1", "m2"}
InvalidMnemonics == {"bad"}
Addresses == {"a1", "a2"}
Salts == {"s1", "s2"}

\* new ethers.Wallet(privateKey).address
AddressOf(k) == IF k = "k1" THEN "a1" ELSE "a2"

\* HDNodeWallet.fromMnemonic(mnemonic, m/44'/60'/0'/0/0).privateKey
KeyOfMnemonic(m) == IF m = "m1" THEN "k1" ELSE "k2"

\* A storage call of the operation that throws ("none": no call throws)
Faults == {"none", "mnemonicWrite", "keychainWrite", "listRead", "listWrite", "pinWrite"}

\* createNewWallet: also crypto.getRandomValues of generateMnemonic may throw
CreateFaults == Faults \cup {"entropy"}

-----------------------------------------------------------------------------
(* KeyManager: hashPin *)

\* (acc * 31 + charCode) >>> 0 keeps the low 32 bits.  A 32-bit word is held as
\* <<high half, low half>>, 16 bits each, so that every product stays small.
HalfWord == 65536
HashMultiplier == 31

\* the step without the multiplier: a sum of the code units
HashStepSum(acc, c) ==
  LET lo == acc[2] + c
      hi == acc[1] + (lo \div HalfWord)
  IN <<hi % HalfWord, lo % HalfWord>>

HashStep(acc, c) ==
  LET lo == acc[2] * HashMultiplier + c
      hi == acc[1] * HashMultiplier + (lo \div HalfWord)
  IN <<hi % HalfWord, lo % HalfWord>>

RECURSIVE HashFold(_, _, _)
HashFold(pin, i, acc) ==
  IF i > Len(pin) THEN acc
  ELSE HashFold(pin, i + 1, HashStep(acc, pin[i]))

\* Number.prototype.toString(16): hex digits, most significant first, "0" for 0
RECURSIVE ToHex(_)
ToHex(n) == IF n < 16 THEN <<n>> ELSE Append(ToHex(n \div 16), n % 16)

\* the four hex digits of a half word, leading zeros kept
Hex4(n) == << n \div 4096, (n \div 256) % 16, (n \div 16) % 16, n % 16 >>

WordToHex(w) == IF w[1] = 0 THEN ToHex(w[2]) ELSE ToHex(w[1]) \o Hex4(w[2])

hashPin(pin) == WordToHex(HashFold(pin, 1, <<0, 0>>))

-----------------------------------------------------------------------------
(* KeyManager: encrypt / decrypt                                           *)
(* encrypt builds base64(JSON.stringify({data, salt})): the blob carries   *)
(* the plaintext and a random salt; the key takes no part in it.           *)

encrypt(data, key, salt) == [data |-> data, salt |-> salt]

\* Buffer.from(encrypted,'base64') -> JSON.parse -> .data; the key is unused
decrypt(encrypted, key) == encrypted.data

-----------------------------------------------------------------------------
(* KeyManager operations on a vault value V.  Each returns the new vault   *)
(* and the operation's return value.                                       *)

EmptyVault ==
  [ keys     |-> [a \in Addresses |-> None],   \* Keychain internet credentials
    list     |-> << >>,                         \* EncryptedStorage 'wallet_list'
    mnemonic |-> None,                          \* EncryptedStorage MNEMONIC_KEY
    pin      |-> None,                          \* Keychain generic password .pin
    bio      |-> FALSE ]                        \* Keychain generic password .biometric

getWalletList(V, fault) == IF fault = "listRead" THEN << >> ELSE V.list

IndexOf(list, address) ==
  IF \E i \in 1..Len(list) : list[i].address = address
  THEN CHOOSE i \in 1..Len(list) :
         /\ list[i].address = address
         /\ \A j \in 1..(i - 1) : list[j].address # address
  ELSE 0

\* addToWalletList: the list it writes (the write itself may throw)
addToWalletList(V, address, blob, now, fault) ==
  LET wallets == getWalletList(V, fault)
      i == IndexOf(wallets, address)
  IN IF i > 0
     THEN [wallets EXCEPT ![i] = [address |-> address, encryptedPrivateKey |-> blob,
                                  createdAt |-> wallets[i].createdAt]]
     ELSE Append(wallets, [address |-> address, encryptedPrivateKey |-> blob,
                           createdAt |-> now])

storeMnemonic(V, mnemonic, pin, salt, now, fault) ==
  IF fault = "mnemonicWrite"
  THEN [v |-> V, ret |-> FALSE]
  ELSE [v |-> [V EXCEPT !.mnemonic = Some([encrypted |-> encrypt(mnemonic, pin, salt),
                                           createdAt |-> now])],
        ret |-> TRUE]

storePrivateKey(V, address, privateKey, pin, salt, now, fault) ==
  LET encryptedKey == encrypt(privateKey, pin, salt)
      V1 == [V EXCEPT !.keys[address] = Some(encryptedKey)]
  IN IF fault = "keychainWrite" THEN [v |-> V, ret |-> FALSE]
     ELSE IF fault = "listWrite" THEN [v |-> V1, ret |-> FALSE]
     ELSE [v |-> [V1 EXCEPT !.list = addToWalletList(V, address, encryptedKey, now, fault)],
           ret |-> TRUE]

retrievePrivateKey(V, address, pin) ==
  IF V.keys[address] = None THEN None
  ELSE Some(decrypt(V.keys[address][1], pin))

retrieveMnemonic(V, pin) ==
  IF V.mnemonic = None THEN None
  ELSE Some(decrypt(V.mnemonic[1].encrypted, pin))

setPin(V, pin, fault) ==
  IF fault = "pinWrite" THEN [v |-> V, ret |-> FALSE]
  ELSE [v |-> [V EXCEPT !.pin = Some(hashPin(pin))], ret |-> TRUE]

verifyPin(V, pin) ==
  IF V.pin = None THEN FALSE ELSE V.pin[1] = hashPin(pin)

hasPin(V) == V.pin # None

RemoveAddress(list, address) ==
  SelectSeq(list, LAMBDA w : w.address # address)

deleteWallet(V, address, fault) ==
  IF fault = "keychainWrite" THEN [v |-> V, ret |-> FALSE]
  ELSE LET V1 == [V EXCEPT !.keys[address] = None]
       IN IF fault = "listWrite" THEN [v |-> V1, ret |-> FALSE]
          ELSE [v |-> [V1 EXCEPT !.list = RemoveAddress(getWalletList(V, fault), address)],
                ret |-> TRUE]

\* Keychain.resetInternetCredentials for every address of the list
RECURSIVE ResetKeys(_, _, _)
ResetKeys(keys, wallets, i) ==
  IF i > Len(wallets) THEN keys
  ELSE ResetKeys([keys EXCEPT ![wallets[i].address] = None], wallets, i + 1)

\* clearAll: the first throwing call ends it (the catch only logs)
clearAll(V, fault) ==
  LET wallets == getWalletList(V, fault)
      V1 == [V EXCEPT !.keys = ResetKeys(V.keys, wallets, 1)]
      V2 == [V1 EXCEPT !.pin = None]
      V3 == [V2 EXCEPT !.bio = FALSE]
      V4 == [V3 EXCEPT !.list = << >>, !.mnemonic = None]
  IN IF fault = "keychainWrite" /\ Len(wallets) > 0 THEN V
     ELSE IF fault = "pinWrite" THEN V1
     ELSE IF fault = "listWrite" THEN V3
     ELSE V4

-----------------------------------------------------------------------------
(* WalletService operations on a vault value V *)

validateMnemonic(m) == m \in Mnemonics

createWalletFromMnemonic(m) ==
  [address |-> AddressOf(KeyOfMnemonic(m)), privateKey |-> KeyOfMnemonic(m)]

createWalletFromPrivateKey(k) == [address |-> AddressOf(k), privateKey |-> k]

\* steps 3-5 of createNewWallet / importWalletFromMnemonic: the return values of
\* storeMnemonic, storePrivateKey and setPin are not looked at
PersistMnemonicWallet(V, mnemonic, pin, salt1, salt2, now, fault) ==
  LET wallet == createWalletFromMnemonic(mnemonic)
      r1 == storeMnemonic(V, mnemonic, pin, salt1, now, fault)
      r2 == storePrivateKey(r1.v, wallet.address, wallet.privateKey, pin, salt2, now, fault)
      r3 == setPin(r2.v, pin, fault)
  IN [v |-> r3.v, ret |-> Some(wallet), stored |-> <<r1.ret, r2.ret, r3.ret>>]

\* generateMnemonic throws when crypto.getRandomValues does: the catch returns
\* null before anything is stored
createNewWallet(V, mnemonic, pin, salt1, salt2, now, fault) ==
  IF fault = "entropy"
  THEN [v |-> V, ret |-> None, stored |-> <<FALSE, FALSE, FALSE>>]
  ELSE PersistMnemonicWallet(V, mnemonic, pin, salt1, salt2, now, fault)

\* importWalletFromMnemonic writing the mnemonic blob before it validates
importWalletFromMnemonicStoreFirst(V, mnemonic, pin, salt1, salt2, now, fault) ==
  IF ~validateMnemonic(mnemonic)
  THEN [v |-> storeMnemonic(V, mnemonic, pin, salt1, now, fault).v, ret |-> None,
        stored |-> <<FALSE, FALSE, FALSE>>]
  ELSE PersistMnemonicWallet(V, mnemonic, pin, salt1, salt2, now, fault)

importWalletFromMnemonic(V, mnemonic, pin, salt1, salt2, now, fault) ==
  IF ~validateMnemonic(mnemonic)
  THEN [v |-> V, ret |-> None, stored |-> <<FALSE, FALSE, FALSE>>]
  ELSE PersistMnemonicWallet(V, mnemonic, pin, salt1, salt2, now, fault)

importWalletFromPrivateKey(V, privateKey, pin, salt, now, fault) ==
  LET wallet == createWalletFromPrivateKey(privateKey)
      r1 == storePrivateKey(V, wallet.address, wallet.privateKey, pin, salt, now, fault)
      r2 == IF hasPin(r1.v) THEN [v |-> r1.v, ret |-> FALSE] ELSE setPin(r1.v, pin, fault)
  IN [v |-> r2.v, ret |-> Some(wallet), stored |-> <<FALSE, r1.ret, r2.ret>>]

-----------------------------------------------------------------------------
(* Initial state: fresh install, nothing stored, no call made yet *)

NoOp == [op |-> "none"]

InitVault ==
  /\ vault = EmptyVault
  /\ clock = 0
  /\ lastOp = NoOp
  /\ encPins = [keys |-> [a \in Addresses |-> None], mnemonic |-> None, pin |-> None]
  /\ ops = << >>

UnchangedWC == UNCHANGED <<txVars, networkChainId, wcVars>>

-----------------------------------------------------------------------------
(* KeyManager / WalletService calls, one at a time (SpecVault) *)

Tick == /\ clock < MaxVaultOps
        /\ clock' = clock + 1
        /\ UNCHANGED ops

\* ghost update: the PIN of a key blob written for address
KeyPinAfter(address, pin, fault) ==
  IF fault = "keychainWrite" THEN encPins.keys
  ELSE [encPins.keys EXCEPT ![address] = Some(pin)]

\* ghost update: the PIN of the stored credential, after a setPin that returned ok
CredentialPinAfter(pin, ok) == IF ok THEN Some(pin) ELSE encPins.pin

MnemonicPinAfter(pin, fault) ==
  IF fault = "mnemonicWrite" THEN encPins.mnemonic ELSE Some(pin)

StoreMnemonicCall(mnemonic, pin, salt, fault) ==
  LET r == storeMnemonic(vault, mnemonic, pin, salt, clock, fault)
  IN /\ Tick
     /\ vault' = r.v
     /\ lastOp' = [op |-> "storeMnemonic", pin |-> pin, ret |-> r.ret]
     /\ encPins' = [encPins EXCEPT !.mnemonic = MnemonicPinAfter(pin, fault)]
     /\ UnchangedWC

StorePrivateKeyCall(privateKey, pin, salt, fault) ==
  LET address == AddressOf(privateKey)
      r == storePrivateKey(vault, address, privateKey, pin, salt, clock, fault)
  IN /\ Tick
     /\ vault' = r.v
     /\ lastOp' = [op |-> "storePrivateKey", address |-> address, pin |-> pin, ret |-> r.ret]
     /\ encPins' = [encPins EXCEPT !.keys = KeyPinAfter(address, pin, fault)]
     /\ UnchangedWC

RetrievePrivateKeyCall(address, pin) ==
  /\ Tick
  /\ lastOp' = [op |-> "retrievePrivateKey", address |-> address, pin |-> pin,
                ret |-> retrievePrivateKey(vault, address, pin)]
  /\ UNCHANGED <<vault, encPins>> /\ UnchangedWC

RetrieveMnemonicCall(pin) ==
  /\ Tick
  /\ lastOp' = [op |-> "retrieveMnemonic", pin |-> pin, ret |-> retrieveMnemonic(vault, pin)]
  /\ UNCHANGED <<vault, encPins>> /\ UnchangedWC

SetPinCall(pin, fault) ==
  LET r == setPin(vault, pin, fault)
  IN /\ Tick
     /\ vault' = r.v
     /\ lastOp' = [op |-> "setPin", pin |-> pin, ret |-> r.ret]
     /\ encPins' = [encPins EXCEPT !.pin = CredentialPinAfter(pin, r.ret)]
     /\ UnchangedWC

VerifyPinCall(pin) ==
  /\ Tick
  /\ lastOp' = [op |-> "verifyPin", pin |-> pin, ret |-> verifyPin(vault, pin)]
  /\ UNCHANGED <<vault, encPins>> /\ UnchangedWC

DeleteWalletCall(address, fault) ==
  LET r == deleteWallet(vault, address, fault)
  IN /\ Tick
     /\ vault' = r.v
     /\ lastOp' = [op |-> "deleteWallet", address |-> address, ret |-> r.ret]
     /\ encPins' = [encPins EXCEPT !.keys =
                      [a \in Addresses |-> IF r.v.keys[a] = None THEN None ELSE @[a]]]
     /\ UnchangedWC

ClearAllCall(fault) ==
  LET v == clearAll(vault, fault)
  IN /\ Tick
     /\ vault' = v
     /\ lastOp' = [op |-> "clearAll"]
     /\ encPins' = [keys |-> [a \in Addresses |->
                                IF v.keys[a] = None THEN None ELSE encPins.keys[a]],
                    mnemonic |-> IF v.mnemonic = None THEN None ELSE encPins.mnemonic,
                    pin |-> IF v.pin = None THEN None ELSE encPins.pin]
     /\ UnchangedWC

CreateNewWalletCall(mnemonic, pin, salt1, salt2, fault) ==
  LET r == createNewWallet(vault, mnemonic, pin, salt1, salt2, clock, fault)
  IN /\ Tick
     /\ vault' = r.v
     /\ lastOp' = [op |-> "createNewWallet", pin |-> pin, ret |-> r.ret]
     /\ encPins' = IF r.ret = None THEN encPins
                   ELSE [keys |-> KeyPinAfter(AddressOf(KeyOfMnemonic(mnemonic)), pin, fault),
                         mnemonic |-> MnemonicPinAfter(pin, fault),
                         pin |-> CredentialPinAfter(pin, r.stored[3])]
     /\ UnchangedWC

ImportWalletFromMnemonicCall(mnemonic, pin, salt1, salt2, fault) ==
  LET r == importWalletFromMnemonic(vault, mnemonic, pin, salt1, salt2, clock, fault)
  IN /\ Tick
     /\ vault' = r.v
     /\ lastOp' = [op |-> "importWalletFromMnemonic", pin |-> pin, ret |-> r.ret]
     /\ encPins' = IF validateMnemonic(mnemonic)
                   THEN [keys |-> KeyPinAfter(AddressOf(KeyOfMnemonic(mnemonic)), pin, fault),
                         mnemonic |-> MnemonicPinAfter(pin, fault),
                         pin |-> CredentialPinAfter(pin, r.stored[3])]
                   ELSE encPins
     /\ UnchangedWC

ImportWalletFromPrivateKeyCall(privateKey, pin, salt, fault) ==
  LET r == importWalletFromPrivateKey(vault, privateKey, pin, salt, clock, fault)
  IN /\ Tick
     /\ vault' = r.v
     /\ lastOp' = [op |-> "importWalletFromPrivateKey", pin |-> pin, ret |-> r.ret]
     /\ encPins' = [encPins EXCEPT !.keys = KeyPinAfter(AddressOf(privateKey), pin, fault),
                                   !.pin = CredentialPinAfter(pin, r.stored[3])]
     /\ UnchangedWC

NextVault ==
  \/ \E m \in Mnemonics, p \in Pins, s \in Salts, f \in {"none", "mnemonicWrite"} :
       StoreMnemonicCall(m, p, s, f)
  \/ \E k \in PrivateKeys, p \in Pins, s \in Salts,
        f \in {"none", "keychainWrite", "listRead", "listWrite"} :
       StorePrivateKeyCall(k, p, s, f)
  \/ \E a \in Addresses, p \in Pins : RetrievePrivateKeyCall(a, p)
  \/ \E p \in Pins : RetrieveMnemonicCall(p)
  \/ \E p \in Pins, f \in {"none", "pinWrite"} : SetPinCall(p, f)
  \/ \E p \in Pins : VerifyPinCall(p)
  \/ \E a \in Addresses, f \in {"none", "keychainWrite", "listRead", "listWrite"} :
       DeleteWalletCall(a, f)
  \/ \E f \in {"none", "keychainWrite", "listRead", "pinWrite", "listWrite"} : ClearAllCall(f)
  \/ \E m \in Mnemonics, p \in Pins, s1, s2 \in Salts, f \in CreateFaults :
       CreateNewWalletCall(m, p, s1, s2, f)
  \/ \E m \in Mnemonics, p \in Pins, s1, s2 \in Salts, f \in Faults :
       ImportWalletFromMnemonicCall(m, p, s1, s2, f)
  \/ \E m \in InvalidMnemonics, p \in Pins :
       ImportWalletFromMnemonicCall(m, p, "s1", "s1", "none")
  \/ \E k \in PrivateKeys, p \in Pins, s \in Salts,
        f \in {"none", "keychainWrite", "listRead", "listWrite", "pinWrite"} :
       ImportWalletFromPrivateKeyCall(k, p, s, f)

\* The wallet calls alone, the salts of a call fixed (SpecWallet)
WalletOpsLeft == clock < MaxWalletOps

NextWallet ==
  \/ \E m \in Mnemonics, p \in Pins, f \in CreateFaults :
       WalletOpsLeft /\ CreateNewWalletCall(m, p, "s1", "s2", f)
  \/ \E m \in Mnemonics \cup InvalidMnemonics, p \in Pins, f \in Faults :
       WalletOpsLeft /\ ImportWalletFromMnemonicCall(m, p, "s1", "s2", f)
  \/ \E k \in PrivateKeys, p \in Pins, s \in Salts,
        f \in {"none", "keychainWrite", "listRead", "listWrite"} :
       WalletOpsLeft /\ StorePrivateKeyCall(k, p, s, f)
  \/ \E a \in Addresses, f \in {"none", "keychainWrite", "listRead", "listWrite"} :
       WalletOpsLeft /\ DeleteWalletCall(a, f)
  \/ \E a \in Addresses, p \in Pins : WalletOpsLeft /\ RetrievePrivateKeyCall(a, p)

\* The PIN calls alone: a PIN is set by the first call, then PINs are tried
\* (SpecPin)
NextPin ==
  \/ \E p \in DigitPins, f \in {"none", "pinWrite"} : clock = 0 /\ SetPinCall(p, f)
  \/ \E q \in DigitPins : clock < MaxPinOps /\ VerifyPinCall(q)

-----------------------------------------------------------------------------
(* The KeyManager with AES-256-CBC and PBKDF2 (services/price/PriceService.ts). *)
(* Its methods are those of the KeyManager above except encrypt, decrypt and    *)
(* hashPin.  Aes.pbkdf2, Aes.encrypt and Aes.decrypt are taken as an ideal      *)
(* cipher: a ciphertext opens under the key and IV it was made with; under any  *)
(* other key or IV Aes.decrypt throws or yields garbage.                        *)

Ivs == {"i1", "i2"}

\* Aes.pbkdf2(password, salt, PBKDF2_ITERATIONS, KEY_LENGTH, 'sha512')
pbkdf2(password, salt) == [password |-> password, salt |-> salt]

\* Aes.encrypt(data, key, iv, 'aes-256-cbc')
AesEncrypt(data, key, iv) == [data |-> data, key |-> key, iv |-> iv]

\* Aes.decrypt(ciphertext, key, iv, 'aes-256-cbc'): None when it throws
AesDecrypt(ciphertext, key, iv, garbled) ==
  IF ciphertext.key = key /\ ciphertext.iv = iv THEN Some(ciphertext.data)
  ELSE IF garbled THEN Some("garbage")
  ELSE None

\* encrypt: `${salt}:${iv}:${ciphertext}`, held as its three parts
encryptAes(data, password, salt, iv) ==
  <<salt, iv, AesEncrypt(data, pbkdf2(password, salt), iv)>>

\* decrypt deriving the key from the IV part instead of the salt part
decryptAesKeyFromIv(encrypted, password, garbled) ==
  IF Len(encrypted) # 3 THEN None
  ELSE AesDecrypt(encrypted[3], pbkdf2(password, encrypted[2]), encrypted[2], garbled)

\* decrypt: split(':'), three parts wanted, the key derived with the stored
\* salt; None when it throws 'Decryption failed'
decryptAes(encrypted, password, garbled) ==
  IF Len(encrypted) # 3 THEN None
  ELSE AesDecrypt(encrypted[3], pbkdf2(password, encrypted[1]), encrypted[2], garbled)

\* hashPin: Aes.pbkdf2 of the PIN with the fixed salt
hashPinAes(pin) == pbkdf2(pin, "web3wallet_pin_salt_v1")

storeMnemonicAes(V, mnemonic, pin, salt, iv, now, fault) ==
  IF fault = "mnemonicWrite"
  THEN [v |-> V, ret |-> FALSE]
  ELSE [v |-> [V EXCEPT !.mnemonic = Some([encrypted |-> encryptAes(mnemonic, pin, salt, iv),
                                           createdAt |-> now])],
        ret |-> TRUE]

storePrivateKeyAes(V, address, privateKey, pin, salt, iv, now, fault) ==
  LET encryptedKey == encryptAes(privateKey, pin, salt, iv)
      V1 == [V EXCEPT !.keys[address] = Some(encryptedKey)]
  IN IF fault = "keychainWrite" THEN [v |-> V, ret |-> FALSE]
     ELSE IF fault = "listWrite" THEN [v |-> V1, ret |-> FALSE]
     ELSE [v |-> [V1 EXCEPT !.list = addToWalletList(V, address, encryptedKey, now, fault)],
           ret |-> TRUE]

retrievePrivateKeyAes(V, address, pin, garbled) ==
  IF V.keys[address] = None THEN None
  ELSE decryptAes(V.keys[address][1], pin, garbled)

setPinAes(V, pin, fault) ==
  IF fault = "pinWrite" THEN [v |-> V, ret |-> FALSE]
  ELSE [v |-> [V EXCEPT !.pin = Some(hashPinAes(pin))], ret |-> TRUE]

\* createNewWallet of WalletService on this KeyManager
createNewWalletAes(V, mnemonic, pin, salt, iv, now, fault) ==
  LET wallet == createWalletFromMnemonic(mnemonic)
      r1 == storeMnemonicAes(V, mnemonic, pin, salt, iv, now, fault)
      r2 == storePrivateKeyAes(r1.v, wallet.address, wallet.privateKey, pin, salt, iv,
                               now, fault)
      r3 == setPinAes(r2.v, pin, fault)
  IN IF fault = "entropy"
     THEN [v |-> V, ret |-> None, stored |-> <<FALSE, FALSE, FALSE>>]
     ELSE [v |-> r3.v, ret |-> Some(wallet), stored |-> <<r1.ret, r2.ret, r3.ret>>]

verifyPinAes(V, pin) ==
  IF V.pin = None THEN FALSE ELSE V.pin[1] = hashPinAes(pin)

\* importWalletFromMnemonic of WalletService on this KeyManager
importWalletFromMnemonicAes(V, mnemonic, pin, salt, iv, now, fault) ==
  LET wallet == createWalletFromMnemonic(mnemonic)
      r1 == storeMnemonicAes(V, mnemonic, pin, salt, iv, now, fault)
      r2 == storePrivateKeyAes(r1.v, wallet.address, wallet.privateKey, pin, salt, iv,
                               now, fault)
      r3 == setPinAes(r2.v, pin, fault)
  IN IF ~validateMnemonic(mnemonic)
     THEN [v |-> V, ret |-> None, stored |-> <<FALSE, FALSE, FALSE>>]
     ELSE [v |-> r3.v, ret |-> Some(wallet), stored |-> <<r1.ret, r2.ret, r3.ret>>]

\* importWalletFromPrivateKey: the PIN is set only if none is stored
importWalletFromPrivateKeyAes(V, privateKey, pin, salt, iv, now, fault) ==
  LET wallet == createWalletFromPrivateKey(privateKey)
      r1 == storePrivateKeyAes(V, wallet.address, wallet.privateKey, pin, salt, iv,
                               now, fault)
      r2 == IF hasPin(r1.v) THEN [v |-> r1.v, ret |-> FALSE] ELSE setPinAes(r1.v, pin, fault)
  IN [v |-> r2.v, ret |-> Some(wallet), stored |-> <<FALSE, r1.ret, r2.ret>>]

ImportWalletFromMnemonicAesCall(mnemonic, pin, salt, iv, fault) ==
  LET r == importWalletFromMnemonicAes(vault, mnemonic, pin, salt, iv, clock, fault)
  IN /\ Tick
     /\ vault' = r.v
     /\ lastOp' = [op |-> "importWalletFromMnemonic", pin |-> pin, ret |-> r.ret]
     /\ encPins' = IF r.ret = None THEN encPins
                   ELSE [keys |-> KeyPinAfter(AddressOf(KeyOfMnemonic(mnemonic)), pin, fault),
                         mnemonic |-> MnemonicPinAfter(pin, fault),
                         pin |-> CredentialPinAfter(pin, r.stored[3])]
     /\ UnchangedWC

ImportWalletFromPrivateKeyAesCall(privateKey, pin, salt, iv, fault) ==
  LET r == importWalletFromPrivateKeyAes(vault, privateKey, pin, salt, iv, clock, fault)
  IN /\ Tick
     /\ vault' = r.v
     /\ lastOp' = [op |-> "importWalletFromPrivateKey", pin |-> pin, ret |-> r.ret]
     /\ encPins' = [encPins EXCEPT !.keys = KeyPinAfter(AddressOf(privateKey), pin, fault),
                                   !.pin = CredentialPinAfter(pin, r.stored[3])]
     /\ UnchangedWC

CreateNewWalletAesCall(mnemonic, pin, salt, iv, fault) ==
  LET r == createNewWalletAes(vault, mnemonic, pin, salt, iv, clock, fault)
  IN /\ Tick
     /\ vault' = r.v
     /\ lastOp' = [op |-> "createNewWallet", pin |-> pin, ret |-> r.ret]
     /\ encPins' = IF r.ret = None THEN encPins
                   ELSE [keys |-> KeyPinAfter(AddressOf(KeyOfMnemonic(mnemonic)), pin, fault),
                         mnemonic |-> MnemonicPinAfter(pin, fault),
                         pin |-> CredentialPinAfter(pin, r.stored[3])]
     /\ UnchangedWC

StorePrivateKeyAesCall(privateKey, pin, salt, iv, fault) ==
  LET address == AddressOf(privateKey)
      r == storePrivateKeyAes(vault, address, privateKey, pin, salt, iv, clock, fault)
  IN /\ Tick
     /\ vault' = r.v
     /\ lastOp' = [op |-> "storePrivateKey", address |-> address, pin |-> pin, ret |-> r.ret]
     /\ encPins' = [encPins EXCEPT !.keys = KeyPinAfter(address, pin, fault)]
     /\ UnchangedWC

RetrievePrivateKeyAesCall(address, pin, garbled) ==
  /\ Tick
  /\ lastOp' = [op |-> "retrievePrivateKey", address |-> address, pin |-> pin,
                ret |-> retrievePrivateKeyAes(vault, address, pin, garbled)]
  /\ UNCHANGED <<vault, encPins>> /\ UnchangedWC

\* The calls of this KeyManager alone (SpecCipher)
NextCipher ==
  \/ \E m \in Mnemonics, p \in Pins, f \in CreateFaults :
       WalletOpsLeft /\ CreateNewWalletAesCall(m, p, "s1", "i1", f)
  \/ \E k \in PrivateKeys, p \in Pins, s \in Salts, iv \in Ivs,
        f \in {"none", "keychainWrite", "listRead", "listWrite"} :
       WalletOpsLeft /\ StorePrivateKeyAesCall(k, p, s, iv, f)
  \/ \E a \in Addresses, p \in Pins, garbled \in BOOLEAN :
       WalletOpsLeft /\ RetrievePrivateKeyAesCall(a, p, garbled)

\* Wallets created and imported with any PIN, no storage call throwing, and
\* keys read back (SpecImport)
NextImport ==
  \/ \E m \in Mnemonics, p \in Pins : CreateNewWalletAesCall(m, p, "s1", "i1", "none")
  \/ \E m \in Mnemonics \cup InvalidMnemonics, p \in Pins :
       ImportWalletFromMnemonicAesCall(m, p, "s2", "i2", "none")
  \/ \E k \in PrivateKeys, p \in Pins :
       ImportWalletFromPrivateKeyAesCall(k, p, "s2", "i1", "none")
  \/ \E a \in Addresses, p \in Pins, garbled \in BOOLEAN :
       RetrievePrivateKeyAesCall(a, p, garbled)

-----------------------------------------------------------------------------
(* KeyManager calls that overlap (SpecRegistry).  storePrivateKey,            *)
(* deleteWallet and clearAll are async: each await is a point where another   *)
(* call runs, and where the process may be killed.  A call is a record of     *)
(* ops; its steps are the storage calls it awaits, in the order of the code.  *)

\* the calls that have not returned
InFlight == {i \in 1..Len(ops) : ops[i].pc \notin {"done", "killed"}}

\* a call as it starts; wallets is its local copy of the list once read;
\* overlaps (ghost): the addresses of the calls in flight when it started
NewOp(kind, address, pin, blob, pc) ==
  [kind |-> kind, address |-> address, pin |-> pin, blob |-> blob, pc |-> pc,
   wallets |-> << >>, idx |-> 1, readOk |-> TRUE, ret |-> None,
   overlaps |-> {ops[j].address : j \in InFlight}]

\* a call that returned: its locals are gone
Finished(op, ret) ==
  [op EXCEPT !.pc = "done", !.ret = Some(ret), !.wallets = << >>, !.idx = 1]

CanStartOp == clock < MaxRegistryOps

OpFrame == UNCHANGED <<lastOp, txVars, networkChainId, wcVars>>

\* storePrivateKey(address, privateKey, pin) up to Keychain.setInternetCredentials
StartStorePrivateKey(privateKey, pin, salt) ==
  /\ CanStartOp
  /\ clock' = clock + 1
  /\ ops' = Append(ops, NewOp("storePrivateKey", AddressOf(privateKey), pin,
                              Some(encrypt(privateKey, pin, salt)), "setKey"))
  /\ UNCHANGED <<vault, encPins>> /\ OpFrame

\* Keychain.setInternetCredentials settled; next is getWalletList of addToWalletList
StoreSetKey(i, ok) ==
  /\ ops[i].pc = "setKey"
  /\ IF ok
     THEN /\ vault' = [vault EXCEPT !.keys[ops[i].address] = ops[i].blob]
          /\ encPins' = [encPins EXCEPT !.keys[ops[i].address] = Some(ops[i].pin)]
          /\ ops' = [ops EXCEPT ![i].pc = "readList"]
     ELSE /\ ops' = [ops EXCEPT ![i] = Finished(@, FALSE)]
          /\ UNCHANGED <<vault, encPins>>
  /\ UNCHANGED clock /\ OpFrame

\* deleteWallet(address) up to Keychain.resetInternetCredentials
StartDeleteWallet(address) ==
  /\ CanStartOp
  /\ clock' = clock + 1
  /\ ops' = Append(ops, NewOp("deleteWallet", address, None, None, "resetKey"))
  /\ UNCHANGED <<vault, encPins>> /\ OpFrame

\* Keychain.resetInternetCredentials settled; next is getWalletList
DeleteResetKey(i, ok) ==
  /\ ops[i].kind = "deleteWallet"
  /\ ops[i].pc = "resetKey"
  /\ IF ok
     THEN /\ vault' = [vault EXCEPT !.keys[ops[i].address] = None]
          /\ encPins' = [encPins EXCEPT !.keys[ops[i].address] = None]
          /\ ops' = [ops EXCEPT ![i].pc = "readList"]
     ELSE /\ ops' = [ops EXCEPT ![i] = Finished(@, FALSE)]
          /\ UNCHANGED <<vault, encPins>>
  /\ UNCHANGED clock /\ OpFrame

\* clearAll() up to EncryptedStorage.getItem of getWalletList
StartClearAll ==
  /\ CanStartOp
  /\ clock' = clock + 1
  /\ ops' = Append(ops, NewOp("clearAll", "", None, None, "readList"))
  /\ UNCHANGED <<vault, encPins>> /\ OpFrame

\* the list a call writes from its copy: addToWalletList updates or pushes
\* (createdAt: Date.now()), deleteWallet filters
ListToWrite(op, now) ==
  IF op.kind = "deleteWallet" THEN RemoveAddress(op.wallets, op.address)
  ELSE LET i == IndexOf(op.wallets, op.address)
       IN IF i > 0
          THEN [op.wallets EXCEPT ![i] = [address |-> op.address,
                                          encryptedPrivateKey |-> op.blob[1],
                                          createdAt |-> op.wallets[i].createdAt]]
          ELSE Append(op.wallets, [address |-> op.address,
                                   encryptedPrivateKey |-> op.blob[1],
                                   createdAt |-> now])

\* getWalletList settled: the stored list, or [] when getItem threw; the call
\* computes what it will write and awaits setItem (clearAll: its first reset)
ReadList(i, ok) ==
  /\ ops[i].pc = "readList"
  /\ LET wallets == IF ok THEN vault.list ELSE << >>
         op == [ops[i] EXCEPT !.wallets = wallets, !.readOk = ok]
     IN ops' = [ops EXCEPT ![i] =
                  IF op.kind = "clearAll"
                  THEN [op EXCEPT !.pc = IF Len(wallets) > 0 THEN "resetKey" ELSE "resetPin"]
                  ELSE [op EXCEPT !.wallets = ListToWrite(op, clock), !.pc = "writeList"]]
  /\ UNCHANGED <<vault, clock, encPins>> /\ OpFrame

\* EncryptedStorage.setItem('wallet_list', ...) settled
WriteList(i, ok) ==
  /\ ops[i].pc = "writeList"
  /\ vault' = IF ok THEN [vault EXCEPT !.list = ops[i].wallets] ELSE vault
  /\ ops' = [ops EXCEPT ![i] = Finished(@, ok)]
  /\ UNCHANGED <<clock, encPins>> /\ OpFrame

\* clearAll: one Keychain.resetInternetCredentials of its loop settled
ClearResetKey(i, ok) ==
  /\ ops[i].kind = "clearAll"
  /\ ops[i].pc = "resetKey"
  /\ LET address == ops[i].wallets[ops[i].idx].address
     IN IF ok
        THEN /\ vault' = [vault EXCEPT !.keys[address] = None]
             /\ encPins' = [encPins EXCEPT !.keys[address] = None]
             /\ ops' = [ops EXCEPT ![i].idx = @ + 1,
                                   ![i].pc = IF ops[i].idx < Len(ops[i].wallets)
                                             THEN "resetKey" ELSE "resetPin"]
        ELSE /\ ops' = [ops EXCEPT ![i] = Finished(@, FALSE)]
             /\ UNCHANGED <<vault, encPins>>
  /\ UNCHANGED clock /\ OpFrame

\* clearAll: Keychain.resetGenericPassword of .pin, then of .biometric, settled
ClearResetPin(i, ok) ==
  /\ ops[i].pc = "resetPin"
  /\ IF ok
     THEN /\ vault' = [vault EXCEPT !.pin = None]
          /\ encPins' = [encPins EXCEPT !.pin = None]
          /\ ops' = [ops EXCEPT ![i].pc = "resetBio"]
     ELSE /\ ops' = [ops EXCEPT ![i] = Finished(@, FALSE)]
          /\ UNCHANGED <<vault, encPins>>
  /\ UNCHANGED clock /\ OpFrame

ClearResetBio(i, ok) ==
  /\ ops[i].pc = "resetBio"
  /\ IF ok
     THEN /\ vault' = [vault EXCEPT !.bio = FALSE]
          /\ ops' = [ops EXCEPT ![i].pc = "clear"]
     ELSE /\ ops' = [ops EXCEPT ![i] = Finished(@, FALSE)]
          /\ UNCHANGED vault
  /\ UNCHANGED <<clock, encPins>> /\ OpFrame

\* clearAll: EncryptedStorage.clear() settled
ClearStorage(i, ok) ==
  /\ ops[i].pc = "clear"
  /\ IF ok
     THEN /\ vault' = [vault EXCEPT !.list = << >>, !.mnemonic = None]
          /\ encPins' = [encPins EXCEPT !.mnemonic = None]
     ELSE UNCHANGED <<vault, encPins>>
  /\ ops' = [ops EXCEPT ![i] = Finished(@, ok)]
  /\ UNCHANGED clock /\ OpFrame

\* the process is killed: the calls in flight are gone, storage stays as it is
Crash ==
  /\ \E i \in 1..Len(ops) : ops[i].pc # "done"
  /\ ops' = [i \in 1..Len(ops) |->
               IF ops[i].pc = "done" THEN ops[i]
               ELSE [ops[i] EXCEPT !.pc = "killed", !.wallets = << >>, !.idx = 1]]
  /\ UNCHANGED <<vault, clock, encPins>> /\ OpFrame

NextRegistry ==
  \/ \E k \in PrivateKeys :
       Cardinality(InFlight) < MaxTasks /\ StartStorePrivateKey(k, <<49, 50>>, "s1")
  \/ \E a \in Addresses : Cardinality(InFlight) < MaxTasks /\ StartDeleteWallet(a)
  \/ Cardinality(InFlight) < MaxTasks /\ StartClearAll
  \/ \E i \in 1..Len(ops), ok \in BOOLEAN : StoreSetKey(i, ok)
  \/ \E i \in 1..Len(ops), ok \in BOOLEAN : DeleteResetKey(i, ok)
  \/ \E i \in 1..Len(ops), ok \in BOOLEAN : ReadList(i, ok)
  \/ \E i \in 1..Len(ops), ok \in BOOLEAN : WriteList(i, ok)
  \/ \E i \in 1..Len(ops), ok \in BOOLEAN : ClearResetKey(i, ok)
  \/ \E i \in 1..Len(ops), ok \in BOOLEAN : ClearResetPin(i, ok)
  \/ \E i \in 1..Len(ops), ok \in BOOLEAN : ClearResetBio(i, ok)
  \/ \E i \in 1..Len(ops), ok \in BOOLEAN : ClearStorage(i, ok)
  \/ Crash

-----------------------------------------------------------------------------
(* TransactionService *)

\* gas prices a caller passes, in gwei (ethers.parseUnits(gasPrice, 'gwei'))
GasPrices == {2, 3}
\* feeData.gasPrice and estimateGas as the network reports them
NetGasPrices == {1}
GasEstimates == {21000}

\* JavaScript !x for an optional number: undefined, null and 0 are falsy
Falsy(x) == x = None \/ x[1] = 0

\* signAndSend up to wallet.sendTransaction: the transaction as submitted, and
\* whether provider.getTransactionCount was asked for the nonce
signAndSend(tx, count, estimate, netPrice) ==
  LET t1 == IF Falsy(tx.nonce) THEN [tx EXCEPT !.nonce = Some(count)] ELSE tx
      t2 == IF Falsy(t1.gasLimit) THEN [t1 EXCEPT !.gasLimit = Some(estimate)] ELSE t1
      t3 == IF Falsy(t2.gasPrice) THEN [t2 EXCEPT !.gasPrice = Some(netPrice)] ELSE t2
  IN [tx |-> t3, asked |-> Falsy(tx.nonce)]

\* buildNativeTransfer: no nonce, no gas limit
buildNativeTransfer(gasPrice) ==
  [to |-> "recipient", nonce |-> None, gasLimit |-> None, gasPrice |-> gasPrice]

\* the transaction cancelTransaction builds: 0 ETH to self at the given nonce
cancelTx(nonce, gasPrice) ==
  [to |-> "self", nonce |-> Some(nonce), gasLimit |-> Some(21000), gasPrice |-> Some(gasPrice)]

\* the transaction speedUpTransaction builds: {...originalTx, gasPrice}
speedUpTx(originalTx, newGasPrice) == [originalTx EXCEPT !.gasPrice = Some(newGasPrice)]

\* the pending count after the network accepted a transaction at this nonce
CountAfter(count, nonce) == IF nonce = count THEN count + 1 ELSE count

Submit(kind, reqId, origNonce, tx) ==
  \E estimate \in GasEstimates, netPrice \in NetGasPrices :
    LET r == signAndSend(tx, pendingCount, estimate, netPrice)
    IN /\ txLog' = Append(txLog, [kind |-> kind, reqId |-> reqId, origNonce |-> origNonce,
                                  tx |-> r.tx, asked |-> r.asked])
       /\ pendingCount' = CountAfter(pendingCount, r.tx.nonce[1])
       /\ UNCHANGED <<receipts, waits>>

InitTx ==
  /\ pendingCount = 0
  /\ txLog = << >>
  /\ receipts = {}
  /\ waits = << >>

\* a transfer from the send screen
SendCall(gasPrice) ==
  /\ Len(txLog) < MaxTxs
  /\ Submit("send", 0, None, buildNativeTransfer(gasPrice))
  /\ UNCHANGED <<vaultVars, networkChainId, wcVars>>

\* cancelTransaction(privateKey, nonce, gasPrice) for the pending transaction txLog[i]
CancelTransactionCall(i, gasPrice) ==
  /\ Len(txLog) < MaxTxs
  /\ Submit("cancel", 0, txLog[i].tx.nonce, cancelTx(txLog[i].tx.nonce[1], gasPrice))
  /\ UNCHANGED <<vaultVars, networkChainId, wcVars>>

\* speedUpTransaction(privateKey, originalTx, newGasPrice) for txLog[i]
SpeedUpTransactionCall(i, newGasPrice) ==
  /\ Len(txLog) < MaxTxs
  /\ Submit("speedUp", 0, txLog[i].tx.nonce, speedUpTx(txLog[i].tx, newGasPrice))
  /\ UNCHANGED <<vaultVars, networkChainId, wcVars>>

NextTx ==
  \/ \E g \in {None} \cup {Some(x) : x \in GasPrices} : SendCall(g)
  \/ \E i \in 1..Len(txLog), g \in GasPrices : CancelTransactionCall(i, g)
  \/ \E i \in 1..Len(txLog), g \in GasPrices : SpeedUpTransactionCall(i, g)

-----------------------------------------------------------------------------
(* waitForConfirmation.  provider.waitForTransaction(txHash, confirmations) is *)
(* called without its timeout argument: the promise settles when the network  *)
(* has a receipt for the transaction, and nothing else settles it.            *)

ReceiptStatuses == {0, 1}

HasReceipt(i) == \E r \in receipts : r.tx = i

\* the network mines txLog[i]: a receipt with status 1 (success) or 0 (reverted)
Mined(i, status) ==
  /\ ~HasReceipt(i)
  /\ receipts' = receipts \cup {[tx |-> i, status |-> status]}
  /\ UNCHANGED <<pendingCount, txLog, waits, vaultVars, networkChainId, wcVars>>

\* waitForConfirmation(txHash) up to the await of providerService.waitForTransaction
WaitForConfirmation(i) ==
  /\ Len(waits) < MaxWaits
  /\ waits' = Append(waits, [tx |-> i, pc |-> "waiting", ret |-> None])
  /\ UNCHANGED <<pendingCount, txLog, receipts, vaultVars, networkChainId, wcVars>>

\* the awaited promise resolved with the receipt: return receipt?.status === 1
WaitReturns(w) ==
  /\ waits[w].pc = "waiting"
  /\ \E r \in receipts :
       /\ r.tx = waits[w].tx
       /\ waits' = [waits EXCEPT ![w] = [tx |-> r.tx, pc |-> "returned",
                                         ret |-> Some(r.status = 1)]]
  /\ UNCHANGED <<pendingCount, txLog, receipts, vaultVars, networkChainId, wcVars>>

\* Transfers sent, mined or not, and waited for (SpecWait)
NextWait ==
  \/ \E g \in GasPrices : Len(txLog) < MaxWaits /\ SendCall(Some(g))
  \/ \E i \in 1..Len(txLog), status \in ReceiptStatuses : Mined(i, status)
  \/ \E i \in 1..Len(txLog) : WaitForConfirmation(i)
  \/ \E w \in 1..Len(waits) : WaitReturns(w)

-----------------------------------------------------------------------------
(* WalletConnect: values *)

\* CHAINS of constants/chains (Object.keys(CHAINS).map(Number))
SUPPORTED_CHAIN_IDS == {1, 137, 11155111, 80002}
DEFAULT_CHAIN_ID == 1

\* Strings of request params as sequences of UTF-16 code units.
\* "hi", "0x6869" (hex of "hi"), "0x4f4b" (hex of "OK"), "ok"
Messages ==
  { <<104, 105>>, <<48, 120, 54, 56, 54, 57>>, <<48, 120, 52, 102, 52, 98>>, <<111, 107>> }

\* account params: "0xa1", "0xb2"
AccountStrings == { <<48, 120, 97, 49>>, <<48, 120, 98, 50>> }

\* session_request events: method, the chain of params.chainId ("eip155:<n>")
\* and the params of the JSON-RPC request (those of a transaction are left out)
RequestKinds ==
  { [method |-> "personal_sign", chainId |-> 1,
     params |-> << <<104, 105>>, <<48, 120, 97, 49>> >>],
    [method |-> "eth_sendTransaction", chainId |-> 137, params |-> << >>],
    [method |-> "eth_sendTransaction", chainId |-> 5, params |-> << >>],
    [method |-> "wallet_addEthereumChain", chainId |-> 1, params |-> << >>] }

\* message-signing requests: personal_sign [message, address], eth_sign
\* [address, message]
MessageKinds ==
  { [method |-> "personal_sign", chainId |-> 1, params |-> <<m, a>>] :
      m \in Messages, a \in AccountStrings }
  \cup
  { [method |-> "eth_sign", chainId |-> 1, params |-> <<a, m>>] :
      m \in Messages, a \in AccountStrings }

ProposalParams == {"dappA"}

\* a topic no session has
NoSessionTopic == MaxIds + 1

\* the value of a hex digit, -1 for any other character
HexValue(c) ==
  IF c \in 48..57 THEN c - 48
  ELSE IF c \in 97..102 THEN c - 87
  ELSE IF c \in 65..70 THEN c - 55
  ELSE 0 - 1

\* Buffer.from(s, 'hex'): the bytes of the leading pairs of hex digits
RECURSIVE HexBytes(_, _)
HexBytes(s, i) ==
  IF i + 1 > Len(s) \/ HexValue(s[i]) < 0 \/ HexValue(s[i + 1]) < 0 THEN << >>
  ELSE <<16 * HexValue(s[i]) + HexValue(s[i + 1])>> \o HexBytes(s, i + 2)

\* toString('utf8') of ASCII bytes and of lone bytes above 127 (U+FFFD each)
Utf8ToString(bytes) ==
  [i \in 1..Len(bytes) |-> IF bytes[i] < 128 THEN bytes[i] ELSE 65533]

\* decodeMessage: a message that starts with "0x" is hex-decoded
decodeMessage(message) ==
  IF Len(message) >= 2 /\ message[1] = 48 /\ message[2] = 120
  THEN Utf8ToString(HexBytes(message, 3))
  ELSE message

\* formatRequest that reads params[0] for every message method
formatRequestFirstParam(request) ==
  IF request.method \in {"personal_sign", "eth_sign"}
  THEN [type |-> "message", message |-> decodeMessage(request.params[1])]
  ELSE IF request.method \in {"eth_signTransaction", "eth_sendTransaction"}
       THEN [type |-> "transaction"]
  ELSE IF request.method \in {"eth_signTypedData", "eth_signTypedData_v4"}
       THEN [type |-> "typedData"]
  ELSE [type |-> "message", message |-> <<"Unsupported method: ", request.method>>]

\* requestHandler.formatRequest: the display shape by method; params[0] of the
\* code is params[1] here
formatRequest(request) ==
  IF request.method \in {"personal_sign", "eth_sign"}
  THEN [type |-> "message",
        message |-> decodeMessage(IF request.method = "personal_sign"
                                  THEN request.params[1] ELSE request.params[2])]
  ELSE IF request.method \in {"eth_signTransaction", "eth_sendTransaction"}
       THEN [type |-> "transaction"]
  ELSE IF request.method \in {"eth_signTypedData", "eth_signTypedData_v4"}
       THEN [type |-> "typedData"]
  ELSE [type |-> "message", message |-> <<"Unsupported method: ", request.method>>]

InitWC ==
  /\ currentChainId = DEFAULT_CHAIN_ID
  /\ networkChainId = DEFAULT_CHAIN_ID
  \* isConnecting and error are display state no store action or handler reads;
  \* they are left out, and hist.handled keeps the error a failed approveRequest set
  /\ store = [ isInitialized   |-> FALSE,
               sessions        |-> << >>,
               pendingProposal |-> None,
               pendingRequest  |-> None,
               formattedRequest |-> None ]
  /\ relay = [ ready    |-> FALSE,     \* web3wallet # null, listeners set up
               sessions |-> {},        \* web3wallet.getActiveSessions(), by topic
               nextId   |-> 1,         \* the id of the next inbound event
               calls    |-> {} ]       \* calls received: [api, id, kind, n], n-th such call
  /\ tasks = << >>
  /\ hist = [ calls           |-> 0,
              approveCalls    |-> {},   \* request ids approveRequest was invoked for
              sessionApprovals |-> {},  \* proposal ids approveSession was invoked with
              handled         |-> {},   \* handleRequest outcomes
              dropped         |-> {},   \* session_request ids with no session
              proposals       |-> {} ]  \* proposal ids the approval screen has shown

Init == InitVault /\ InitTx /\ InitWC

\* the topic of a session the WalletConnect client kept from an earlier launch
RestoredTopic == MaxIds + 2

\* A launch with a kept session: web3wallet.getActiveSessions() has it before
\* initialize is called
InitRestored ==
  /\ InitVault /\ InitTx
  /\ currentChainId = DEFAULT_CHAIN_ID
  /\ networkChainId = DEFAULT_CHAIN_ID
  /\ store = [ isInitialized   |-> FALSE,
               sessions        |-> << >>,
               pendingProposal |-> None,
               pendingRequest  |-> None,
               formattedRequest |-> None ]
  /\ relay = [ ready |-> FALSE, sessions |-> {RestoredTopic}, nextId |-> 1, calls |-> {} ]
  /\ tasks = << >>
  /\ hist = [ calls |-> 0, approveCalls |-> {}, sessionApprovals |-> {},
              handled |-> {}, dropped |-> {}, proposals |-> {} ]

-----------------------------------------------------------------------------
(* WalletConnectService: inbound events (setupEventListeners) *)

\* the relay after one more call of api for id
RelayCall(api, id, kind) ==
  LET n == Cardinality({c \in relay.calls : c.api = api /\ c.id = id /\ c.kind = kind})
  IN [relay EXCEPT !.calls = @ \cup {[api |-> api, id |-> id, kind |-> kind, n |-> n + 1]}]

\* session_proposal -> onSessionProposal: the pending proposal is overwritten
OnSessionProposal(params) ==
  /\ relay.ready
  /\ relay.nextId <= MaxIds
  /\ store' = [store EXCEPT !.pendingProposal = Some([id |-> relay.nextId, params |-> params])]
  /\ relay' = [relay EXCEPT !.nextId = @ + 1]
  /\ hist' = [hist EXCEPT !.proposals = @ \cup {relay.nextId}]
  /\ UNCHANGED <<vaultVars, networkChainId, txVars, currentChainId, tasks>>

\* onSessionRequest keeping the request that is already pending
OnSessionRequestKeepOlder(topic, kind) ==
  LET request == [id |-> relay.nextId, topic |-> topic,
                  method |-> kind.method, chainId |-> kind.chainId,
                  params |-> kind.params]
  IN /\ relay.ready
     /\ relay.nextId <= MaxIds
     /\ relay' = [relay EXCEPT !.nextId = @ + 1]
     /\ IF topic \notin relay.sessions
        THEN /\ hist' = [hist EXCEPT !.dropped = @ \cup {request.id}]
             /\ UNCHANGED store
        ELSE /\ store' = IF store.pendingRequest # None THEN store
                         ELSE [store EXCEPT !.pendingRequest = Some(request),
                                            !.formattedRequest = Some(formatRequest(request))]
             /\ UNCHANGED hist
     /\ UNCHANGED <<vaultVars, networkChainId, txVars, currentChainId, tasks>>

\* session_request: no session for the topic -> console.error and return;
\* otherwise onSessionRequest: pendingRequest and formattedRequest are overwritten
OnSessionRequest(topic, kind) ==
  LET request == [id |-> relay.nextId, topic |-> topic,
                  method |-> kind.method, chainId |-> kind.chainId,
                  params |-> kind.params]
  IN /\ relay.ready
     /\ relay.nextId <= MaxIds
     /\ relay' = [relay EXCEPT !.nextId = @ + 1]
     /\ IF topic \notin relay.sessions
        THEN /\ hist' = [hist EXCEPT !.dropped = @ \cup {request.id}]
             /\ UNCHANGED store
        ELSE /\ store' = [store EXCEPT !.pendingRequest = Some(request),
                                       !.formattedRequest = Some(formatRequest(request))]
             /\ UNCHANGED hist
     /\ UNCHANGED <<vaultVars, networkChainId, txVars, currentChainId, tasks>>

RemoveTopic(sessions, topic) == SelectSeq(sessions, LAMBDA t : t # topic)

\* session_delete from the peer -> onSessionDelete
OnSessionDelete(topic) ==
  /\ relay.ready
  /\ topic \in relay.sessions
  /\ relay' = [relay EXCEPT !.sessions = @ \ {topic}]
  /\ store' = [store EXCEPT !.sessions = RemoveTopic(@, topic)]
  /\ UNCHANGED <<vaultVars, networkChainId, txVars, currentChainId, tasks, hist>>

-----------------------------------------------------------------------------
(* useWalletConnectStore actions.  An async action runs to its first await *)
(* when it is called; the rest runs as later steps of its task.            *)

RemoveAt(seq, i) == SubSeq(seq, 1, i - 1) \o SubSeq(seq, i + 1, Len(seq))

CanStart == hist.calls < MaxCalls /\ Len(tasks) < MaxTasks

Started == [hist EXCEPT !.calls = @ + 1]

\* the topics of a set as a list, ascending
RECURSIVE SetToSeq(_)
SetToSeq(S) ==
  IF S = {} THEN << >>
  ELSE LET m == CHOOSE x \in S : \A y \in S : x <= y
       IN <<m>> \o SetToSeq(S \ {m})

\* initialize: setCallbacks, walletConnectService.initialize(), getActiveSessions
Initialize(ok) ==
  /\ ~store.isInitialized
  /\ IF ok
     THEN /\ relay' = [relay EXCEPT !.ready = TRUE]
          /\ store' = [store EXCEPT !.isInitialized = TRUE, !.sessions = SetToSeq(relay.sessions)]
     ELSE UNCHANGED <<store, relay>>
  /\ UNCHANGED <<vaultVars, networkChainId, txVars, currentChainId, tasks, hist>>

\* approveSession(proposalId, address), up to web3wallet.approveSession
ApproveSession(proposalId, address) ==
  /\ CanStart
  /\ IF store.pendingProposal = None
     THEN UNCHANGED <<relay, tasks, hist>>
     ELSE /\ relay' = RelayCall("approveSession", proposalId, store.pendingProposal[1].params)
          /\ tasks' = Append(tasks, [kind |-> "approveSession", pc |-> "relay", id |-> proposalId])
          /\ hist' = [Started EXCEPT !.sessionApprovals = @ \cup {proposalId}]
  /\ UNCHANGED store
  /\ UNCHANGED <<vaultVars, networkChainId, txVars, currentChainId>>

\* web3wallet.approveSession settled: the session's topic is that of the proposal
ApproveSessionDone(i, ok) ==
  /\ tasks[i].kind = "approveSession"
  /\ tasks' = RemoveAt(tasks, i)
  /\ IF ok
     THEN /\ relay' = [relay EXCEPT !.sessions = @ \cup {tasks[i].id}]
          /\ store' = [store EXCEPT !.sessions = Append(@, tasks[i].id),
                                    !.pendingProposal = None]
     ELSE UNCHANGED <<store, relay>>
  /\ UNCHANGED <<vaultVars, networkChainId, txVars, currentChainId, hist>>

\* rejectSession(proposalId), up to web3wallet.rejectSession
RejectSession(proposalId) ==
  /\ CanStart
  /\ relay.ready
  /\ relay' = RelayCall("rejectSession", proposalId, "USER_REJECTED")
  /\ tasks' = Append(tasks, [kind |-> "rejectSession", pc |-> "relay", id |-> proposalId])
  /\ hist' = Started
  /\ UNCHANGED <<vaultVars, networkChainId, txVars, currentChainId, store>>

RejectSessionDone(i, ok) ==
  /\ tasks[i].kind = "rejectSession"
  /\ tasks' = RemoveAt(tasks, i)
  /\ store' = IF ok THEN [store EXCEPT !.pendingProposal = None] ELSE store
  /\ UNCHANGED <<vaultVars, networkChainId, txVars, currentChainId, relay, hist>>

\* disconnectSession(topic), up to web3wallet.disconnectSession
DisconnectSession(topic) ==
  /\ CanStart
  /\ relay.ready
  /\ relay' = RelayCall("disconnectSession", topic, "USER_DISCONNECTED")
  /\ tasks' = Append(tasks, [kind |-> "disconnectSession", pc |-> "relay", id |-> topic])
  /\ hist' = Started
  /\ UNCHANGED <<vaultVars, networkChainId, txVars, currentChainId, store>>

\* a rejected disconnect putting the session back on the list
DisconnectSessionDoneRestore(i, ok) ==
  /\ tasks[i].kind = "disconnectSession"
  /\ tasks' = RemoveAt(tasks, i)
  /\ IF ok
     THEN /\ relay' = [relay EXCEPT !.sessions = @ \ {tasks[i].id}]
          /\ store' = [store EXCEPT !.sessions = RemoveTopic(@, tasks[i].id)]
     ELSE /\ store' = [store EXCEPT !.sessions = Append(RemoveTopic(@, tasks[i].id), tasks[i].id)]
          /\ UNCHANGED relay
  /\ UNCHANGED <<vaultVars, networkChainId, txVars, currentChainId, hist>>

\* web3wallet.disconnectSession settled: the list is filtered when it resolved,
\* the catch leaves it alone when it threw
DisconnectSessionDone(i, ok) ==
  /\ tasks[i].kind = "disconnectSession"
  /\ tasks' = RemoveAt(tasks, i)
  /\ IF ok
     THEN /\ relay' = [relay EXCEPT !.sessions = @ \ {tasks[i].id}]
          /\ store' = [store EXCEPT !.sessions = RemoveTopic(@, tasks[i].id)]
     ELSE UNCHANGED <<store, relay>>
  /\ UNCHANGED <<vaultVars, networkChainId, txVars, currentChainId, hist>>

RefreshSessions ==
  /\ store.sessions # SetToSeq(relay.sessions)
  /\ store' = [store EXCEPT !.sessions = SetToSeq(relay.sessions)]
  /\ UNCHANGED <<vaultVars, networkChainId, txVars, currentChainId, relay, tasks, hist>>

ClearPendingProposal ==
  /\ store.pendingProposal # None
  /\ store' = [store EXCEPT !.pendingProposal = None]
  /\ UNCHANGED <<vaultVars, networkChainId, txVars, currentChainId, relay, tasks, hist>>

ClearPendingRequest ==
  /\ store.pendingRequest # None
  /\ store' = [store EXCEPT !.pendingRequest = None, !.formattedRequest = None]
  /\ UNCHANGED <<vaultVars, networkChainId, txVars, currentChainId, relay, tasks, hist>>

-----------------------------------------------------------------------------
(* approveRequest / rejectRequest and RequestHandler.handleRequest *)

SUPPORTED_METHODS ==
  {"personal_sign", "eth_sign", "eth_signTransaction", "eth_sendTransaction",
   "eth_signTypedData", "eth_signTypedData_v4"}

\* formatTransactionParams for a dApp transaction that names no nonce and no gas
formatTransactionParams ==
  [to |-> "dapp", nonce |-> None, gasLimit |-> None, gasPrice |-> None]

\* handleRequest threw: the catch of approveRequest sets the store's error and
\* re-throws to the screen; nothing is sent to the peer
ApproveFailed(i, message) ==
  /\ tasks' = RemoveAt(tasks, i)
  /\ hist' = [hist EXCEPT !.handled = @ \cup
                {[id |-> tasks[i].request.id, pinOk |-> tasks[i].pinOk, outcome |-> message,
                  message |-> None]}]
  /\ UNCHANGED store

\* approveRequest(address, pin), up to the first await of handleRequest.  With
\* no pending request it only sets the store's error, which changes nothing here.
ApproveRequest(address, pin) ==
  /\ CanStart
  /\ store.pendingRequest # None
  /\ tasks' = Append(tasks, [kind |-> "approveRequest", pc |-> "verifyPin",
                             request |-> store.pendingRequest[1],
                             address |-> address, pin |-> pin, pinOk |-> FALSE])
  /\ hist' = [Started EXCEPT !.approveCalls = @ \cup {store.pendingRequest[1].id}]
  /\ UNCHANGED <<vaultVars, networkChainId, txVars, currentChainId, store, relay>>

\* handleRequest without the throw on a false verifyPin: it goes on to
\* retrievePrivateKey whatever verifyPin returned
HandleVerifyPinUnchecked(i) ==
  /\ tasks[i].kind = "approveRequest"
  /\ tasks[i].pc = "verifyPin"
  /\ tasks' = [tasks EXCEPT ![i].pc = "retrievePrivateKey",
                            ![i].pinOk = verifyPin(vault, tasks[i].pin)]
  /\ UNCHANGED <<store, hist>>
  /\ UNCHANGED <<vaultVars, networkChainId, txVars, currentChainId, relay>>

\* handleRequest: keyManager.verifyPin settled; 'Invalid PIN' is thrown on false,
\* otherwise keyManager.retrievePrivateKey is called
HandleVerifyPin(i) ==
  /\ tasks[i].kind = "approveRequest"
  /\ tasks[i].pc = "verifyPin"
  /\ IF verifyPin(vault, tasks[i].pin)
     THEN /\ tasks' = [tasks EXCEPT ![i].pc = "retrievePrivateKey", ![i].pinOk = TRUE]
          /\ UNCHANGED <<store, hist>>
     ELSE ApproveFailed(i, "Invalid PIN")
  /\ UNCHANGED <<vaultVars, networkChainId, txVars, currentChainId, relay>>

\* what handleRequest does with the retrieved key: the error it throws, or
\* "dispatched" when it reaches the signer
Dispatch(privateKey, request) ==
  IF privateKey = None THEN "Failed to retrieve private key"
  ELSE IF request.chainId \notin SUPPORTED_CHAIN_IDS THEN "Unsupported chain"
  ELSE IF request.method \notin SUPPORTED_METHODS THEN "Unsupported method"
  ELSE "dispatched"

\* handleRequest: keyManager.retrievePrivateKey settled, then setCurrentChain and
\* the switch on the method, up to the signer's await
HandleRetrievePrivateKey(i) ==
  LET t == tasks[i]
      privateKey == retrievePrivateKey(vault, t.address, t.pin)
      outcome == Dispatch(privateKey, t.request)
  IN /\ t.kind = "approveRequest"
     /\ t.pc = "retrievePrivateKey"
     /\ currentChainId' = IF outcome \in {"Unsupported method", "dispatched"}
                          THEN t.request.chainId ELSE currentChainId
     /\ IF outcome = "dispatched"
        THEN /\ tasks' = [tasks EXCEPT ![i].pc = "sign"]
             /\ UNCHANGED <<store, hist>>
        ELSE ApproveFailed(i, outcome)
     /\ UNCHANGED <<vaultVars, networkChainId, txVars, relay>>

\* handlePersonalSign / handleEthSign passing the message as it came
SignedMessageRaw(request) ==
  IF request.method = "personal_sign" THEN Some(request.params[1])
  ELSE IF request.method = "eth_sign" THEN Some(request.params[2])
  ELSE None

\* the message handlePersonalSign (params[0]) and handleEthSign (params[1]) pass
\* to transactionService.signMessage; None for the other methods
SignedMessage(request) ==
  IF request.method = "personal_sign" THEN Some(decodeMessage(request.params[1]))
  ELSE IF request.method = "eth_sign" THEN Some(decodeMessage(request.params[2]))
  ELSE None

\* the signer settled: signMessage, or signAndSend for eth_sendTransaction.  On
\* success walletConnectService.approveRequest sends the result to the peer.
HandleSign(i, ok) ==
  LET t == tasks[i]
  IN /\ t.kind = "approveRequest"
     /\ t.pc = "sign"
     /\ IF ok
        THEN /\ IF t.request.method = "eth_sendTransaction"
                THEN Submit("walletconnect", t.request.id, None, formatTransactionParams)
                ELSE UNCHANGED txVars
             /\ relay' = RelayCall("respondSessionRequest", t.request.id, "result")
             /\ tasks' = [tasks EXCEPT ![i].pc = "respond"]
             /\ hist' = [hist EXCEPT !.handled = @ \cup
                           {[id |-> t.request.id, pinOk |-> t.pinOk, outcome |-> "signed",
                             message |-> SignedMessage(t.request)]}]
             /\ UNCHANGED store
        ELSE /\ ApproveFailed(i, "Failed to sign request")
             /\ UNCHANGED <<txVars, relay>>
     /\ UNCHANGED <<vaultVars, networkChainId, currentChainId>>

\* respondSessionRequest settled: on success the pending request is cleared
ApproveRequestDone(i, ok) ==
  /\ tasks[i].kind = "approveRequest"
  /\ tasks[i].pc = "respond"
  /\ tasks' = RemoveAt(tasks, i)
  /\ store' = IF ok THEN [store EXCEPT !.pendingRequest = None, !.formattedRequest = None]
              ELSE store
  /\ UNCHANGED <<vaultVars, networkChainId, txVars, currentChainId, relay, hist>>

\* rejectRequest answering with a result instead of the USER_REJECTED error
RejectRequestAsResult ==
  /\ CanStart
  /\ store.pendingRequest # None
  /\ hist' = Started
  /\ relay' = RelayCall("respondSessionRequest", store.pendingRequest[1].id, "result")
  /\ tasks' = Append(tasks, [kind |-> "rejectRequest", pc |-> "respond",
                             request |-> store.pendingRequest[1]])
  /\ UNCHANGED <<vaultVars, networkChainId, txVars, currentChainId, store>>

\* rejectRequest(), up to web3wallet.respondSessionRequest
RejectRequest ==
  /\ CanStart
  /\ store.pendingRequest # None
  /\ hist' = Started
  /\ relay' = RelayCall("respondSessionRequest", store.pendingRequest[1].id, "error")
  /\ tasks' = Append(tasks, [kind |-> "rejectRequest", pc |-> "respond",
                             request |-> store.pendingRequest[1]])
  /\ UNCHANGED <<vaultVars, networkChainId, txVars, currentChainId, store>>

RejectRequestDone(i, ok) ==
  /\ tasks[i].kind = "rejectRequest"
  /\ tasks' = RemoveAt(tasks, i)
  /\ store' = IF ok THEN [store EXCEPT !.pendingRequest = None, !.formattedRequest = None]
              ELSE store
  /\ UNCHANGED <<vaultVars, networkChainId, txVars, currentChainId, relay, hist>>

\* useNetworkStore.setChain(chainId): an unknown chain returns at once; otherwise
\* providerService.setCurrentChain and the store's currentChainId follow
SetChain(chainId) ==
  /\ IF chainId \in SUPPORTED_CHAIN_IDS
     THEN /\ currentChainId' = chainId
          /\ networkChainId' = chainId
     ELSE UNCHANGED <<currentChainId, networkChainId>>
  /\ UNCHANGED <<vaultVars, txVars, store, relay, tasks, hist>>

\* the wallet the requests are signed with: created once, before any request is approved
SetupWallet ==
  /\ clock = 0
  /\ CreateNewWalletCall("m1", <<49, 50>>, "s1", "s1", "none")

NextWC ==
  \/ \E ok \in BOOLEAN : Initialize(ok)
  \/ SetupWallet
  \/ \E params \in ProposalParams : OnSessionProposal(params)
  \/ \E topic \in relay.sessions \cup {NoSessionTopic}, kind \in RequestKinds :
       OnSessionRequest(topic, kind)
  \/ \E topic \in relay.sessions : OnSessionDelete(topic)
  \/ \E proposalId \in hist.proposals : ApproveSession(proposalId, "a1")
  \/ \E proposalId \in hist.proposals : RejectSession(proposalId)
  \/ \E topic \in relay.sessions : DisconnectSession(topic)
  \/ \E address \in Addresses, pin \in Pins : ApproveRequest(address, pin)
  \/ RejectRequest
  \/ RefreshSessions
  \/ ClearPendingProposal
  \/ ClearPendingRequest
  \/ \E i \in 1..Len(tasks), ok \in BOOLEAN :
       \/ ApproveSessionDone(i, ok)
       \/ RejectSessionDone(i, ok)
       \/ DisconnectSessionDone(i, ok)
       \/ HandleSign(i, ok)
       \/ ApproveRequestDone(i, ok)
       \/ RejectRequestDone(i, ok)
  \/ \E i \in 1..Len(tasks) :
       \/ HandleVerifyPin(i)
       \/ HandleRetrievePrivateKey(i)

\* Message-signing requests arriving on an approved session (SpecFormat)
NextFormat ==
  \/ \E ok \in BOOLEAN : Initialize(ok)
  \/ \E params \in ProposalParams : OnSessionProposal(params)
  \/ \E proposalId \in hist.proposals : ApproveSession(proposalId, "a1")
  \/ \E i \in 1..Len(tasks), ok \in BOOLEAN : ApproveSessionDone(i, ok)
  \/ \E topic \in relay.sessions \cup {NoSessionTopic}, kind \in MessageKinds :
       OnSessionRequest(topic, kind)

\* Proposals and requests arriving one after another, on a launch with a kept
\* session (SpecInbox)
NextInbox ==
  \/ \E ok \in BOOLEAN : Initialize(ok)
  \/ \E params \in ProposalParams : OnSessionProposal(params)
  \/ \E topic \in relay.sessions \cup {NoSessionTopic},
        kind \in RequestKinds \cup MessageKinds : OnSessionRequest(topic, kind)
  \/ \E proposalId \in hist.proposals : ApproveSession(proposalId, "a1")
  \/ \E i \in 1..Len(tasks), ok \in BOOLEAN : ApproveSessionDone(i, ok)

\* Sessions approved and disconnected, a disconnect also called for a session
\* already gone (SpecDisconnect)
NextDisconnect ==
  \/ \E ok \in BOOLEAN : Initialize(ok)
  \/ \E params \in ProposalParams : OnSessionProposal(params)
  \/ \E proposalId \in hist.proposals : ApproveSession(proposalId, "a1")
  \/ \E topic \in hist.proposals \cup {RestoredTopic} : DisconnectSession(topic)
  \/ \E topic \in relay.sessions : OnSessionDelete(topic)
  \/ RefreshSessions
  \/ \E i \in 1..Len(tasks), ok \in BOOLEAN :
       \/ ApproveSessionDone(i, ok)
       \/ DisconnectSessionDone(i, ok)

\* Requests arriving on a kept session and decided by the user, the session
\* ended by the peer or by the user meanwhile (SpecRequests)
NextRequests ==
  \/ \E ok \in BOOLEAN : Initialize(ok)
  \/ SetupWallet
  \/ \E topic \in relay.sessions \cup {NoSessionTopic}, kind \in RequestKinds :
       OnSessionRequest(topic, kind)
  \/ \E topic \in relay.sessions : OnSessionDelete(topic)
  \/ \E topic \in relay.sessions : DisconnectSession(topic)
  \/ \E address \in Addresses, pin \in Pins : ApproveRequest(address, pin)
  \/ RejectRequest
  \/ \E i \in 1..Len(tasks), ok \in BOOLEAN :
       \/ DisconnectSessionDone(i, ok)
       \/ HandleSign(i, ok)
       \/ ApproveRequestDone(i, ok)
       \/ RejectRequestDone(i, ok)
  \/ \E i \in 1..Len(tasks) :
       \/ HandleVerifyPin(i)
       \/ HandleRetrievePrivateKey(i)

\* the message-signing requests that name the account "0xa1"
SignKinds ==
  {kind \in MessageKinds : <<48, 120, 97, 49>> \in {kind.params[1], kind.params[2]}}

\* Message-signing requests on a kept session, approved one at a time with the
\* wallet's PIN and signed (SpecSign)
NextSign ==
  \/ \E ok \in BOOLEAN : Initialize(ok)
  \/ SetupWallet
  \/ \E topic \in relay.sessions, kind \in SignKinds : OnSessionRequest(topic, kind)
  \/ tasks = << >> /\ ApproveRequest("a1", <<49, 50>>)
  \/ \E i \in 1..Len(tasks) : HandleVerifyPin(i)
  \/ \E i \in 1..Len(tasks) : HandleRetrievePrivateKey(i)
  \/ \E i \in 1..Len(tasks), ok \in BOOLEAN : HandleSign(i, ok)
  \/ \E i \in 1..Len(tasks), ok \in BOOLEAN : ApproveRequestDone(i, ok)

\* The user switching chains while dApp requests on a kept session are approved
\* one at a time (SpecChain)
NextChain ==
  \/ \E ok \in BOOLEAN : Initialize(ok)
  \/ SetupWallet
  \/ \E chainId \in {1, 137, 5} : SetChain(chainId)
  \/ \E topic \in relay.sessions, kind \in RequestKinds : OnSessionRequest(topic, kind)
  \/ tasks = << >> /\ ApproveRequest("a1", <<49, 50>>)
  \/ \E i \in 1..Len(tasks) : HandleVerifyPin(i)
  \/ \E i \in 1..Len(tasks) : HandleRetrievePrivateKey(i)
  \/ \E i \in 1..Len(tasks), ok \in BOOLEAN : HandleSign(i, ok)
  \/ \E i \in 1..Len(tasks), ok \in BOOLEAN : ApproveRequestDone(i, ok)

-----------------------------------------------------------------------------
(* Specifications *)

SpecVault == Init /\ [][NextVault]_vars

SpecWallet == Init /\ [][NextWallet]_vars

SpecPin == Init /\ [][NextPin]_vars

SpecFormat == Init /\ [][NextFormat]_vars

SpecInbox == InitRestored /\ [][NextInbox]_vars

SpecChain == InitRestored /\ [][NextChain]_vars

SpecSign == InitRestored /\ [][NextSign]_vars

SpecRequests == InitRestored /\ [][NextRequests]_vars

SpecDisconnect == InitRestored /\ [][NextDisconnect]_vars

SpecRegistry == Init /\ [][NextRegistry]_vars

SpecImport == Init /\ [][NextImport]_vars

SpecCipher == Init /\ [][NextCipher]_vars

SpecTx == Init /\ [][NextTx]_vars

\* The event loop runs the continuation of a settled promise: weak fairness of
\* WaitReturns.  Nothing obliges the network to mine a transaction.
SpecWait ==
  /\ Init /\ [][NextWait]_vars
  /\ \A w \in 1..MaxWaits : WF_vars(Len(waits) >= w /\ WaitReturns(w))

SpecWC == Init /\ [][NextWC]_vars

\* every call of the app; the two KeyManagers never share a vault, so the calls
\* of the AES one (NextCipher) are a specification of their own
Next == NextVault \/ NextWallet \/ NextPin \/ NextTx \/ NextWC \/ NextFormat

Spec == Init /\ [][Next]_vars


-----------------------------------------------------------------------------
(* Properties *)

ApproveTasks == {i \in 1..Len(tasks) : tasks[i].kind = "approveRequest"}

Responses(id) == {c \in relay.calls : c.api = "respondSessionRequest" /\ c.id = id}

\* C1: in handleRequest, verifyPin returns true strictly before retrievePrivateKey
\* (and so decrypt) or any signer operation is invoked: a handleRequest that is
\* at retrievePrivateKey, at the signer or past it saw verifyPin return true, and
\* every handleRequest whose verifyPin returned false failed with 'Invalid PIN'.
C1_PinBeforeDecrypt ==
  /\ \A i \in ApproveTasks : tasks[i].pc # "verifyPin" => tasks[i].pinOk
  /\ \A h \in hist.handled : (~h.pinOk) <=> (h.outcome = "Invalid PIN")

\* C1 witness: with a PIN set and a key stored, a request was refused with
\* 'Invalid PIN'; it is still pending, unanswered, and nothing was submitted
C1_Witness ==
  /\ vault.pin # None
  /\ vault.keys["a1"] # None
  /\ store.pendingRequest # None
  /\ \E h \in hist.handled :
       /\ h.id = store.pendingRequest[1].id
       /\ h.outcome = "Invalid PIN"
  /\ Responses(store.pendingRequest[1].id) = {}
  /\ txLog = << >>

\* C2: after storePrivateKey(addr, k, p) (storeMnemonic(m, p)), a retrieval with
\* a PIN q # p returns null.  encPins holds the PIN each stored blob was
\* encrypted with.
C2_WrongPinReturnsNull ==
  /\ ( /\ lastOp.op = "retrievePrivateKey"
       /\ encPins.keys[lastOp.address] # None
       /\ encPins.keys[lastOp.address][1] # lastOp.pin )
     => lastOp.ret = None
  /\ ( /\ lastOp.op = "retrieveMnemonic"
       /\ encPins.mnemonic # None
       /\ encPins.mnemonic[1] # lastOp.pin )
     => lastOp.ret = None

\* C3: every transaction cancelTransaction or speedUpTransaction submits carries
\* the original nonce, and getTransactionCount was not asked for a nonce.
C3_NoncePreserved ==
  \A i \in 1..Len(txLog) :
    txLog[i].kind \in {"cancel", "speedUp"} =>
      /\ txLog[i].tx.nonce = txLog[i].origNonce
      /\ ~txLog[i].asked

\* C4: for one eth_sendTransaction request id, signAndSend submits at most one
\* transaction.
C4_AtMostOneSubmission ==
  \A i, j \in 1..Len(txLog) :
    ( /\ txLog[i].kind = "walletconnect"
      /\ txLog[j].kind = "walletconnect"
      /\ txLog[i].reqId = txLog[j].reqId )
    => i = j

\* C5: at most one respondSessionRequest call is made for a request id.
C5_AtMostOneResponse ==
  \A id \in 1..MaxIds : Cardinality(Responses(id)) <= 1

\* C6: a request whose handleRequest failed is not left without a response: it
\* has been answered, or it is still the pending request the user can answer.
C6_FailureIsAnswered ==
  \A h \in hist.handled :
    h.outcome # "signed" =>
      \/ Responses(h.id) # {}
      \/ store.pendingRequest # None /\ store.pendingRequest[1].id = h.id

\* C7: a session_request for a topic with no session gets an explicit error
\* response for its request id.
C7_UnknownTopicAnswered ==
  \A id \in hist.dropped : \E c \in Responses(id) : c.kind = "error"

\* C8: no implicit approval: the relay's approveSession is called for a proposal
\* id only by an approveSession store action invoked with that id, and a result
\* response is sent for a request id only by an approveRequest store action for
\* it whose handleRequest succeeded after verifyPin returned true.
C8_NoImplicitApproval ==
  \A c \in relay.calls :
    /\ c.api = "approveSession" => c.id \in hist.sessionApprovals
    /\ (c.api = "respondSessionRequest" /\ c.kind = "result") =>
         /\ c.id \in hist.approveCalls
         /\ \E h \in hist.handled : h.id = c.id /\ h.outcome = "signed" /\ h.pinOk

\* C8 witness: a session was approved, and a request of it got a result after
\* an earlier approveRequest for it had failed
C8_Witness ==
  /\ \E c \in relay.calls : c.api = "approveSession"
  /\ \E c \in relay.calls, h \in hist.handled :
       /\ c.api = "respondSessionRequest"
       /\ c.kind = "result"
       /\ h.id = c.id
       /\ h.outcome # "signed"

\* C10: once a PIN credential is stored, no call other than clearAll replaces it.
C10_PinSetOnce ==
  [][(vault.pin # None /\ lastOp'.op # "clearAll") => vault'.pin = vault.pin]_vars

\* the registry record of address, if the wallet list has one
HasRecord(V, address) == \E i \in 1..Len(V.list) : V.list[i].address = address

\* C11: createNewWallet and importWalletFromMnemonic return an account only if
\* the mnemonic blob, the key entry of the account's address and its registry
\* record were persisted: after a call that returned an account, all three are
\* in the vault.
C11_AccountOnlyIfPersisted ==
  ( /\ lastOp.op \in {"createNewWallet", "importWalletFromMnemonic"}
    /\ lastOp.ret # None )
  => /\ vault.mnemonic # None
     /\ vault.keys[lastOp.ret[1].address] # None
     /\ HasRecord(vault, lastOp.ret[1].address)

\* C12: a createNewWallet or importWalletFromMnemonic call that returns null
\* leaves the registry, the key store, the mnemonic blob and the PIN credential
\* as they were before the call.
C12_NullLeavesNoTrace ==
  [][ ( /\ lastOp'.op \in {"createNewWallet", "importWalletFromMnemonic"}
        /\ lastOp'.ret = None )
      => vault' = vault ]_vars

\* C12 witness: an import returned null on a device that already holds a wallet
C12_Witness ==
  /\ lastOp.op = "importWalletFromMnemonic"
  /\ lastOp.ret = None
  /\ vault.list # << >>
  /\ vault.pin # None

\* C13: clearAll is all-or-nothing: after it returns, every secret of the
\* profile is gone or the vault is as it was before the call.
C13_ClearAllAtomic ==
  [][ lastOp'.op = "clearAll" => (vault' = EmptyVault \/ vault' = vault) ]_vars

\* the registry records of address
RecordsOf(V, address) == {i \in 1..Len(V.list) : V.list[i].address = address}

\* C14: a successful storePrivateKey for an address already in the registry
\* updates its record in place: the list keeps its length, the record keeps its
\* position and createdAt and holds the blob just written, and the registry has
\* at most one record per address.
C14_RegistryIdempotent ==
  [][ ( /\ lastOp'.op = "storePrivateKey"
        /\ lastOp'.ret = TRUE
        /\ RecordsOf(vault, lastOp'.address) # {} )
      => /\ Len(vault'.list) = Len(vault.list)
         /\ \A i \in RecordsOf(vault, lastOp'.address) :
              /\ vault'.list[i].address = lastOp'.address
              /\ vault'.list[i].createdAt = vault.list[i].createdAt
              /\ Some(vault'.list[i].encryptedPrivateKey) = vault'.keys[lastOp'.address]
         /\ \A a \in Addresses : Cardinality(RecordsOf(vault', a)) <= 1 ]_vars

C16_MessageIndex ==
  store.pendingRequest # None =>
    \A m \in Messages, a \in AccountStrings :
      LET request == store.pendingRequest[1]
          shown == [type |-> "message", message |-> decodeMessage(m)]
      IN /\ (request.method = "personal_sign" /\ request.params = <<m, a>>)
              => store.formattedRequest = Some(shown)
         /\ (request.method = "eth_sign" /\ request.params = <<a, m>>)
              => store.formattedRequest = Some(shown)

\* C16 witness: an eth_sign request with a hex message is pending and shown decoded
C16_Witness ==
  /\ store.pendingRequest # None
  /\ store.pendingRequest[1].method = "eth_sign"
  /\ store.pendingRequest[1].params[2] = <<48, 120, 54, 56, 54, 57>>
  /\ store.formattedRequest = Some([type |-> "message", message |-> <<104, 105>>])

\* the private key of an address
KeyOf(address) == CHOOSE k \in PrivateKeys : AddressOf(k) = address

C18_Replacement ==
  [][ /\ Len(store'.pendingProposal) <= 1
      /\ Len(store'.pendingRequest) <= 1
      /\ hist'.proposals # hist.proposals
           => /\ store'.pendingProposal # None
              /\ store'.pendingProposal[1].id = relay.nextId
      /\ ( /\ relay'.nextId # relay.nextId
           /\ hist'.proposals = hist.proposals
           /\ hist'.dropped = hist.dropped )
           => /\ store'.pendingRequest # None
              /\ store'.pendingRequest[1].id = relay.nextId
              /\ store'.formattedRequest = Some(formatRequest(store'.pendingRequest[1])) ]_vars

\* C18 witness: two requests arrived on the kept session and nothing answered
\* or cleared the first; the second one is the pending one
C18_Witness ==
  /\ relay.nextId = 3
  /\ hist.proposals = {}
  /\ hist.dropped = {}
  /\ relay.calls = {}
  /\ store.pendingRequest # None
  /\ store.pendingRequest[1].id = 2
  /\ store.pendingRequest[1].topic = RestoredTopic

\* the n-th disconnectSession call for topic reached the relay
DisconnectCalled(topic, n) ==
  [api |-> "disconnectSession", id |-> topic, kind |-> "USER_DISCONNECTED", n |-> n]
    \in relay.calls

\* C19: when a disconnectSession(topic) call settles, the store's list is the
\* old one without topic if the relay ended the session, no other session is
\* ever touched, and a call for a topic the list no longer has (a second call,
\* accepted or rejected by the relay) leaves the list as it is.
C19_DisconnectIdempotent ==
  [][ \A i \in 1..Len(tasks) :
        ( /\ tasks[i].kind = "disconnectSession"
          /\ tasks' = RemoveAt(tasks, i) )
        => LET topic == tasks[i].id
           IN /\ (topic \in relay.sessions /\ topic \notin relay'.sessions)
                   => store'.sessions = RemoveTopic(store.sessions, topic)
              /\ store'.sessions \in {store.sessions, RemoveTopic(store.sessions, topic)}
              /\ (\A j \in 1..Len(store.sessions) : store.sessions[j] # topic)
                   => store'.sessions = store.sessions ]_vars

\* C19 witness: disconnectSession was called twice for the kept session and
\* both calls settled; the list has the other session and not the kept one
C19_Witness ==
  /\ DisconnectCalled(RestoredTopic, 2)
  /\ tasks = << >>
  /\ RestoredTopic \notin relay.sessions
  /\ store.sessions = <<1>>

\* C20: waitForConfirmation always terminates: every call that is waiting
\* returns at some point, also when no receipt is ever produced.
C20_WaitTerminates ==
  \A w \in 1..MaxWaits :
    [](Len(waits) >= w => <>(Len(waits) >= w /\ waits[w].pc = "returned"))

\* the calls made for an address, and the last of them
OpsOn(address) == {i \in 1..Len(ops) : ops[i].address = address}

LastOn(address) == CHOOSE i \in OpsOn(address) : \A j \in OpsOn(address) : j <= i

\* C21: registry writes are read-modify-write safe: when storePrivateKey and
\* deleteWallet calls have all returned true, every registry read succeeded and
\* calls for one address never overlapped, the registry reflects every call: an
\* address is listed exactly if the last call for it was a storePrivateKey,
\* however the calls for distinct addresses interleaved.
C21_NoLostUpdate ==
  ( /\ \A i \in 1..Len(ops) :
         /\ ops[i].kind \in {"storePrivateKey", "deleteWallet"}
         /\ ops[i].pc = "done"
         /\ ops[i].ret = Some(TRUE)
         /\ ops[i].readOk
         /\ ops[i].address \notin ops[i].overlaps )
  => \A a \in Addresses :
       OpsOn(a) # {} => (HasRecord(vault, a) <=> ops[LastOn(a)].kind = "storePrivateKey")

\* C22: crash consistency of deletion: in every state, the states between the
\* awaits of deleteWallet and clearAll and the states a kill leaves behind
\* included, every address listed in the registry has its key entry.
C22_ListedHasKey ==
  \A i \in 1..Len(vault.list) : vault.keys[vault.list[i].address] # None

\* C23: the sessions list of the store holds at most one session per topic.
C23_OneSessionPerTopic ==
  \A i, j \in 1..Len(store.sessions) :
    store.sessions[i] = store.sessions[j] => i = j

\* C24: PIN/key consistency: every registered address's key blob was encrypted
\* under the PIN of the stored credential, so that retrievePrivateKey with the
\* PIN verifyPin accepts returns the key of every registered address.
C24_PinKeyConsistent ==
  /\ \A a \in Addresses :
       HasRecord(vault, a) => (encPins.pin # None /\ encPins.keys[a] = encPins.pin)
  /\ ( /\ lastOp.op = "retrievePrivateKey"
       /\ HasRecord(vault, lastOp.address)
       /\ verifyPinAes(vault, lastOp.pin) )
     => lastOp.ret = Some(KeyOf(lastOp.address))

\* C25: a sign request is not lost to a concurrent decision: when an
\* approveRequest or rejectRequest made for one request completes while another
\* request is the pending one, that request stays pending or has been answered.
C25_RequestNotLost ==
  [][ \A i \in 1..Len(tasks) :
        ( /\ tasks[i].kind \in {"approveRequest", "rejectRequest"}
          /\ tasks' = RemoveAt(tasks, i)
          /\ store.pendingRequest # None
          /\ store.pendingRequest[1].id # tasks[i].request.id )
        => \/ store'.pendingRequest = store.pendingRequest
           \/ Responses(store.pendingRequest[1].id) # {} ]_vars

\* C26: proposal id and params stay paired: whenever approveSession(proposalId,
\* address) calls the relay, the params it builds the namespaces from are those
\* of the proposal whose id is proposalId.
C26_IdParamsPaired ==
  [][ ( /\ Len(tasks') = Len(tasks) + 1
        /\ tasks'[Len(tasks')].kind = "approveSession" )
      => /\ store.pendingProposal # None
         /\ store.pendingProposal[1].id = tasks'[Len(tasks')].id ]_vars

\* C27: what is shown is what is signed: when handleRequest reaches the signer
\* for a personal_sign or eth_sign request, the message it passes to signMessage
\* is the message formatRequest returns for that request, and the one the store
\* holds for display while that request is the pending one.
C27_ShownIsSigned ==
  [][ \A i \in 1..Len(tasks) :
        ( /\ tasks[i].kind = "approveRequest"
          /\ tasks[i].pc = "sign"
          /\ Len(tasks') = Len(tasks)
          /\ tasks'[i].pc = "respond" )
        => \E h \in hist'.handled :
             /\ h.id = tasks[i].request.id
             /\ h.outcome = "signed"
             /\ h.message = Some(formatRequest(tasks[i].request).message)
             /\ store.pendingRequest = Some(tasks[i].request)
                  => store.formattedRequest = Some([type |-> "message",
                                                    message |-> h.message[1]]) ]_vars

\* C27 witness: an eth_sign request with a hex-encoded message was signed while
\* it was the pending one
C27_Witness ==
  \E h \in hist.handled :
    /\ h.outcome = "signed"
    /\ store.pendingRequest # None
    /\ store.pendingRequest[1].id = h.id
    /\ store.pendingRequest[1].method = "eth_sign"
    /\ store.pendingRequest[1].params[2] # h.message[1]

\* C28: the active chain is consistent: providerService.currentChainId equals
\* the network store's currentChainId in every state.
C28_ChainConsistent == currentChainId = networkChainId

\* C29: no signing for a dead session: once the peer deleted the session of a
\* topic or disconnectSession ended it, no request of that topic is signed or
\* answered with a result: whenever handleRequest's signer succeeds and the
\* result is sent, the session of the request's topic is active.
C29_NoSigningForDeadSession ==
  [][ \A i \in 1..Len(tasks) :
        ( /\ tasks[i].kind = "approveRequest"
          /\ tasks[i].pc = "sign"
          /\ Len(tasks') = Len(tasks)
          /\ tasks'[i].pc = "respond" )
        => tasks[i].request.topic \in relay.sessions ]_vars

\* the registry records of an address
RecordSet(V, address) == {V.list[i] : i \in RecordsOf(V, address)}

\* C30: registry frame: storePrivateKey(a, ...) and deleteWallet(a) leave the
\* registry records of every other address as they were.
C30_RegistryFrame ==
  [][ lastOp'.op \in {"storePrivateKey", "deleteWallet"}
      => \A b \in Addresses \ {lastOp'.address} :
           RecordSet(vault', b) = RecordSet(vault, b) ]_vars

====
